---------------------------- MODULE Spec2Model ----------------------------
(***************************************************************************)
(* Fraud Guard (src/app.py): a Streamlit script that sends a pasted text   *)
(* or an uploaded screenshot to a generative model and renders the         *)
(* four-line reply as a verdict panel.                                     *)
(*                                                                         *)
(* Streamlit re-executes the whole script, top to bottom, after every      *)
(* widget interaction.  One action of this model is one interaction        *)
(* followed by the complete script run it triggers.  Text is modelled by   *)
(* TLA+ strings, character by character: split, strip, replace, the "in"   *)
(* test and upper are computed the way Python computes them.               *)
(*                                                                         *)
(* The three icons of the banners are not ASCII; they are written          *)
(* "[siren] ", "[warn] " and "[ok] " here.                                 *)
(***************************************************************************)
EXTENDS Integers, Sequences, FiniteSets, TLC

(***************************************************************************)
(* Python string primitives used by the script.                            *)
(***************************************************************************)

\* The characters str.strip() removes, among those of the model's alphabet.
IsSpace(c) == c \in {" ", "\t", "\n", "\r", "\f"}

\* The positions of s that hold no whitespace.
Inked(s) == {i \in 1..Len(s) : ~IsSpace(SubSeq(s, i, i))}

Least(S) == CHOOSE i \in S : \A j \in S : i <= j
Greatest(S) == CHOOSE i \in S : \A j \in S : i >= j

\* str.strip(): what lies between the first and the last character that is
\* no whitespace.
Strip(s) ==
    IF Inked(s) = {} THEN ""
    ELSE SubSeq(s, Least(Inked(s)), Greatest(Inked(s)))

\* The positions of s where an occurrence of old starts.
Occurrences(s, old) ==
    {i \in 1..(Len(s) - Len(old) + 1) : SubSeq(s, i, i + Len(old) - 1) = old}

\* str.replace(old, new): every non-overlapping occurrence of old, scanning
\* from the left; old is never empty in the script.
RECURSIVE Replace(_, _, _)
Replace(s, old, new) ==
    IF Occurrences(s, old) = {} THEN s
    ELSE LET i == Least(Occurrences(s, old))
         IN  SubSeq(s, 1, i - 1) \o new
             \o Replace(SubSeq(s, i + Len(old), Len(s)), old, new)

\* str.split(sep) for a one-character sep: k separators give k+1 pieces,
\* empty pieces included; "" gives [""].
Split(s, sep) ==
    LET at == Occurrences(s, sep)
        \* the position of the k-th separator; 0 and Len(s)+1 close the ends
        cut(k) == IF k = 0 THEN 0
                  ELSE IF k > Cardinality(at) THEN Len(s) + 1
                  ELSE CHOOSE i \in at : Cardinality({j \in at : j < i}) = k - 1
    IN  [k \in 1..(Cardinality(at) + 1) |-> SubSeq(s, cut(k - 1) + 1, cut(k) - 1)]

\* sub in s
Contains(s, sub) == sub = "" \/ Occurrences(s, sub) # {}

LowerLetters == "abcdefghijklmnopqrstuvwxyz"
UpperLetters == "ABCDEFGHIJKLMNOPQRSTUVWXYZ"

UpperChar(c) ==
    IF Occurrences(LowerLetters, c) # {}
    THEN LET i == Least(Occurrences(LowerLetters, c)) IN SubSeq(UpperLetters, i, i)
    ELSE c

\* str.upper(), one half of the string after the other
RECURSIVE Upper(_)
Upper(s) ==
    IF s = "" THEN ""
    ELSE IF Len(s) = 1 THEN UpperChar(s)
    ELSE Upper(SubSeq(s, 1, Len(s) \div 2)) \o Upper(SubSeq(s, Len(s) \div 2 + 1, Len(s)))

\* [l for l in lines if l.strip()]
RECURSIVE NonBlank(_)
NonBlank(lines) ==
    IF lines = <<>> THEN <<>>
    ELSE IF Strip(Head(lines)) # ""
         THEN <<Head(lines)>> \o NonBlank(Tail(lines))
         ELSE NonBlank(Tail(lines))

(***************************************************************************)
(* The environment of one run of the script.                               *)
(***************************************************************************)

\* The name looked up in st.secrets (line 9); shortened here.
SecretName == "AIzaSy...B_4"

\* The string literal assigned at line 15 when the lookup fails; it is Python
\* source text in quotes, not a call of os.environ.get.  Shortened like the name.
FallbackKey == "os.environ.get('AIzaSy...B_4')"

\* st.secrets: a store without the entry, and one holding it.
SecretStores == { [n \in {} |-> ""], [n \in {SecretName} |-> "real-key"] }

\* What st.text_area can hold: nothing, blanks, or a message.
Texts == {"", "  ", "You won a lottery!"}

\* What st.file_uploader(type=["jpg","png"]) can hold.  The uploader filters
\* by extension only, so a file that is no image can carry one.
NoFile == "none"
ImageFiles == {"shot.png"}
BrokenFiles == {"broken.jpg"}
Files == ImageFiles \cup BrokenFiles

\* The replies the external model can give.  The script validates nothing, so
\* any text is possible; these cover the shapes the parsing distinguishes.
Replies == {
    "Line 1: High\nLine 2: Phishing Scam\nLine 3: They want it.\nLine 4: Bad Grammar, Urgency, Suspicious Link",
    "\nMedium\r\n\n  \nOdd Offer\r\nIt asks.\r\n \t \nUrgency,Link\r\n",
    "Line 1: Low\nLine 2: Safe\nLine 3: Nothing.\nLine 4: None\nLine 5: High\nmore",
    "Medium to High\nScam\nhook\na, b,",
    " Line 1: Medium \r\n\tLine 2: Odd\r\nLine 3:x\r\nLine 4:a,b\r\n",
    "high\nmedium\nhook\n,",
    "Line 1:\nLine 2:\nLine 3:\nLine 4:",
    "Line 1: High\nLine 2: Scam\nLine 3: See Line 3: above\nLine 4: a",
    "Low\nHigh Alert\nMedium\nUrgency, see Line 4: again",
    "Line 1: High\nLine 2: Scam\nLine 3: hook",
    "High\n\n \n",
    "",
    "\n \n\t\n" }

\* The messages of the errors model.generate_content can raise.
ServiceErrors == {"429 quota exceeded", "503 unavailable"}

\* The message of the error raised when the response carries no text
\* (response.text at line 67, or result.split at line 78 on a missing text).
NoTextError == "response has no text"

NoSvc == [kind |-> "none", val |-> ""]

\* What the external service does with one request.
Svc == [kind : {"raise"}, val : ServiceErrors]
       \cup [kind : {"notext"}, val : {""}]
       \cup [kind : {"text"}, val : Replies]

\* The number of button presses a behaviour follows.
MaxPresses == 2

(***************************************************************************)
(* The script.                                                             *)
(***************************************************************************)

\* Lines 7-17: the key genai is configured with.
ResolveApiKey(secrets) ==
    IF SecretName \in DOMAIN secrets THEN secrets[SecretName] ELSE FallbackKey

\* One rendered element: the st.* call, its label and its text.
Elem(w, label, body) == [w |-> w, label |-> label, body |-> body]

\* Lines 45-67: one call of generate_content; either its text or its error.
analyze_content(content, type, s) ==
    CASE s.kind = "raise"  -> [ok |-> FALSE, text |-> "", err |-> s.val]
      [] s.kind = "notext" -> [ok |-> FALSE, text |-> "", err |-> NoTextError]
      [] OTHER             -> [ok |-> TRUE, text |-> s.val, err |-> ""]

NoResult == [ok |-> FALSE, risk |-> "", verdict |-> "", hook |-> "", flags |-> <<>>]

\* for flag in flags: st.markdown(f"- {flag.strip()}")
FlagChips(flags) == [i \in 1..Len(flags) |-> Elem("markdown", "", "- " \o Strip(flags[i]))]

\* TextBanner testing "Medium" before "High".
TextBannerMediumFirst(risk, verdict) ==
    IF Contains(risk, "Medium") THEN Elem("warning", "", "[warn] " \o Upper(verdict))
    ELSE IF Contains(risk, "High") THEN Elem("error", "", "[siren] " \o Upper(verdict))
    ELSE Elem("success", "", "[ok] " \o Upper(verdict))

\* Lines 93-98: the verdict banner of the text tab.
TextBanner(risk, verdict) ==
    IF Contains(risk, "High") THEN Elem("error", "", "[siren] " \o Upper(verdict))
    ELSE IF Contains(risk, "Medium") THEN Elem("warning", "", "[warn] " \o Upper(verdict))
    ELSE Elem("success", "", "[ok] " \o Upper(verdict))

\* Lines 83-87: the fields taken from the non-blank lines of the reply.
TextFields(lines) ==
    IF Len(lines) >= 4
    THEN [ok      |-> TRUE,
          risk    |-> Strip(Replace(lines[1], "Line 1:", "")),
          verdict |-> Strip(Replace(lines[2], "Line 2:", "")),
          hook    |-> Strip(Replace(lines[3], "Line 3:", "")),
          flags   |-> Split(Strip(Replace(lines[4], "Line 4:", "")), ",")]
    ELSE NoResult

\* Lines 78-87: the reply of the text scan split into its fields.
TextParse(result) == TextFields(NonBlank(Split(result, "\n")))

\* Lines 83-116: the dashboard of the text tab for the parsed reply p, or the
\* message of the else branch.
TextPanel(p) ==
    IF p.ok
    THEN <<Elem("divider", "", ""),
           TextBanner(p.risk, p.verdict),
           Elem("metric", "Risk Level", p.risk),
           Elem("metric", "Detection Confidence", "98%"),
           Elem("info", "", "**The Trap:** " \o p.hook),
           Elem("subheader", "", "Red Flags Found")>>
         \o FlagChips(p.flags)
    ELSE <<Elem("error", "", "Could not analyze. Please try again.")>>

\* TextOutcome with a fixed message in place of the text of the error.
TextOutcomeFixedMessage(r) ==
    IF ~r.ok
    THEN [out |-> <<Elem("error", "", "Connection Error: the scan failed")>>,
          parsed |-> NoResult]
    ELSE [out |-> TextPanel(TextParse(r.text)), parsed |-> TextParse(r.text)]

\* TextOutcome with the else of line 115 also run after the except branch.
TextOutcomeNoElse(r) ==
    IF ~r.ok
    THEN [out |-> <<Elem("error", "", "Connection Error: " \o r.err),
                    Elem("error", "", "Could not analyze. Please try again.")>>,
          parsed |-> NoResult]
    ELSE [out |-> TextPanel(TextParse(r.text)), parsed |-> TextParse(r.text)]

\* Lines 76-119: the try block of Scan Text after the call r: the except
\* branch if the call raised, else the parsing and the dashboard.
TextOutcome(r) ==
    IF ~r.ok
    THEN [out |-> <<Elem("error", "", "Connection Error: " \o r.err)>>,
          parsed |-> NoResult]
    ELSE [out |-> TextPanel(TextParse(r.text)), parsed |-> TextParse(r.text)]

\* Lines 76-119: the try block of Scan Text, entered with a non-empty text.
TextScan(text, s) == TextOutcome(analyze_content(text, "text", s))

\* What a tab hands to the run: its elements, the parsed reply, the requests
\* it sent to the service.
TabResult(t, reqs) == [out |-> t.out, parsed |-> t.parsed, reqs |-> reqs]

\* TextTab calling the service a second time after a failed call.
TextTabRetry(text, pressed, s) ==
    IF pressed /\ text # ""
    THEN TabResult(TextScan(text, s),
                   IF s.kind = "raise"
                   THEN <<[type |-> "text", content |-> text],
                          [type |-> "text", content |-> text]>>
                   ELSE <<[type |-> "text", content |-> text]>>)
    ELSE [out |-> <<>>, parsed |-> NoResult, reqs |-> <<>>]

\* TextTab without the guard of line 74.
TextTabNoGuard(text, pressed, s) ==
    IF pressed
    THEN TabResult(TextScan(text, s), <<[type |-> "text", content |-> text]>>)
    ELSE [out |-> <<>>, parsed |-> NoResult, reqs |-> <<>>]

\* Lines 70-119: the text tab.  The button is always drawn; its body runs
\* only when it was pressed and the text area holds something.
TextTab(text, pressed, s) ==
    IF pressed /\ text # ""
    THEN TabResult(TextScan(text, s), <<[type |-> "text", content |-> text]>>)
    ELSE [out |-> <<>>, parsed |-> NoResult, reqs |-> <<>>]

\* Lines 146-151: the verdict banner of the image tab.
ImageBanner(risk, verdict) ==
    IF Contains(risk, "High") THEN Elem("error", "", "[siren] " \o Upper(verdict))
    ELSE IF Contains(risk, "Medium") THEN Elem("warning", "", "[warn] " \o Upper(verdict))
    ELSE Elem("success", "", "[ok] " \o Upper(verdict))

\* Lines 137-141: the fields taken from the non-blank lines of the reply.
ImageFields(lines) ==
    IF Len(lines) >= 4
    THEN [ok      |-> TRUE,
          risk    |-> Strip(Replace(lines[1], "Line 1:", "")),
          verdict |-> Strip(Replace(lines[2], "Line 2:", "")),
          hook    |-> Strip(Replace(lines[3], "Line 3:", "")),
          flags   |-> Split(Strip(Replace(lines[4], "Line 4:", "")), ",")]
    ELSE NoResult

\* Lines 134-141: the reply of the image scan split into its fields.
ImageParse(result) == ImageFields(NonBlank(Split(result, "\n")))

\* Lines 137-157: the panel of the image tab for the parsed reply p.  The if
\* at line 137 has no else: fewer than four lines render nothing.
ImagePanel(p) ==
    IF p.ok
    THEN <<Elem("divider", "", ""),
           ImageBanner(p.risk, p.verdict),
           Elem("info", "", "**The Trap:** " \o p.hook),
           Elem("subheader", "", "Visual Red Flags")>>
         \o FlagChips(p.flags)
    ELSE <<>>

\* Lines 131-160: the try block of Scan Screenshot after the call r.
ImageOutcome(r) ==
    IF ~r.ok
    THEN [out |-> <<Elem("error", "", "Error: " \o r.err)>>, parsed |-> NoResult]
    ELSE [out |-> ImagePanel(ImageParse(r.text)), parsed |-> ImageParse(r.text)]

\* Lines 131-160: the try block of Scan Screenshot.
ImageScan(image, s) == ImageOutcome(analyze_content(image, "image", s))

NoError == "none"

\* Line 126, Image.open(uploaded_file): the error it ends with, or NoError.
\* The script imports os, st and genai only (lines 1-3), so the name Image is
\* unbound and the line raises NameError for every file.  bound = TRUE is the
\* script with PIL's Image imported, where the line fails on a broken file only.
ImageOpen(bound, file) ==
    IF ~bound THEN "NameError: name 'Image' is not defined"
    ELSE IF file \in BrokenFiles THEN "UnidentifiedImageError: cannot identify image file"
    ELSE NoError

\* Lines 127-160: the image tab once the image is open: the image, the
\* button, and the scan t if the button was pressed.
ImageShown(file, t, reqs) ==
    [out |-> <<Elem("image", "Uploaded Image", file)>> \o t.out,
     parsed |-> t.parsed, reqs |-> reqs, offered |-> TRUE, uncaught |-> NoError]

\* Lines 122-160: the image tab.  Line 126 is outside every try: its error
\* ends the run before the image and the button are drawn.
ImageTab(bound, file, pressed, s) ==
    IF file = NoFile
    THEN [out |-> <<>>, parsed |-> NoResult, reqs |-> <<>>,
          offered |-> FALSE, uncaught |-> NoError]
    ELSE IF ImageOpen(bound, file) # NoError
    THEN [out |-> <<>>, parsed |-> NoResult, reqs |-> <<>>,
          offered |-> FALSE, uncaught |-> ImageOpen(bound, file)]
    ELSE IF pressed
    THEN ImageShown(file, ImageScan(file, s), <<[type |-> "image", content |-> file]>>)
    ELSE ImageShown(file, [out |-> <<>>, parsed |-> NoResult], <<>>)

\* Lines 1-160: what one run leaves, from the key and the two tabs.
RunResult(key, button, t1, t2) ==
    [api_key   |-> key,
     scanText  |-> TRUE,
     tab1      |-> t1.out,
     tab2      |-> t2.out,
     parsed    |-> IF button = "image" THEN t2.parsed ELSE t1.parsed,
     reqs      |-> t1.reqs \o t2.reqs,
     offered   |-> t2.offered,
     uncaught  |-> t2.uncaught]

\* Lines 1-160: one run of the script.  button is the button whose press
\* started the run ("text", "image") or "none"; s is what the external
\* service does if it is called.
RunScript(store, bound, text, file, button, s) ==
    RunResult(ResolveApiKey(store), button,
              TextTab(text, button = "text", s),
              ImageTab(bound, file, button = "image", s))

(***************************************************************************)
(* State.                                                                  *)
(***************************************************************************)
VARIABLES
    secrets,        \* st.secrets, fixed for a deployment
    imageBound,     \* whether the name Image is bound in the script
    api_key,        \* the key genai.configure was given (line 17)
    text_input,     \* the text area (line 71)
    uploaded_file,  \* the file uploader (line 123)
    button,         \* the button whose press started the last run
    svc,            \* what the service did in the last run, NoSvc if not called
    tab1,           \* what the last run rendered under "Analyze Text"
    tab2,           \* what the last run rendered under "Analyze Screenshot"
    parsed,         \* risk, verdict, hook, flags of the last run
    requests,       \* the calls of generate_content of the last run
    scanTextOffered,        \* the last run drew the Scan Text button
    scanScreenshotOffered,  \* the last run drew the Scan Screenshot button
    uncaught,       \* the error that ended the last run, or NoError
    presses,        \* button presses so far
    guarded,        \* presses that passed the input guard so far
    totalCalls      \* calls of generate_content so far

vars == <<secrets, imageBound, api_key, text_input, uploaded_file, button, svc,
          tab1, tab2, parsed, requests, scanTextOffered, scanScreenshotOffered,
          uncaught, presses, guarded, totalCalls>>

\* The widgets and outputs after the run RunScript describes.
Rendered(run, text, file, b, s) ==
    /\ api_key' = run.api_key
    /\ text_input' = text
    /\ uploaded_file' = file
    /\ button' = b
    /\ svc' = IF run.reqs # <<>> THEN s ELSE NoSvc
    /\ tab1' = run.tab1
    /\ tab2' = run.tab2
    /\ parsed' = run.parsed
    /\ requests' = run.reqs
    /\ scanTextOffered' = run.scanText
    /\ scanScreenshotOffered' = run.offered
    /\ uncaught' = run.uncaught
    /\ totalCalls' = totalCalls + Len(run.reqs)
    /\ UNCHANGED <<secrets, imageBound>>

\* The state a first run leaves.
FirstRendered(run) ==
    /\ api_key = run.api_key
    /\ text_input = ""
    /\ uploaded_file = NoFile
    /\ button = "none"
    /\ svc = NoSvc
    /\ tab1 = run.tab1
    /\ tab2 = run.tab2
    /\ parsed = run.parsed
    /\ requests = run.reqs
    /\ scanTextOffered = run.scanText
    /\ scanScreenshotOffered = run.offered
    /\ uncaught = run.uncaught

\* The first run of a session: no text, no file, no button pressed.
FirstRun(bounds) ==
    /\ secrets \in SecretStores
    /\ imageBound \in bounds
    /\ FirstRendered(RunScript(secrets, imageBound, "", NoFile, "none", NoSvc))
    /\ presses = 0
    /\ guarded = 0
    /\ totalCalls = 0

\* The script as it is: Image is unbound.
Init == FirstRun({FALSE})

\* The script as it is, together with the script with Image imported.
InitImageBound == FirstRun(BOOLEAN)

\* The user changes the text area.
EnterText(t) ==
    /\ t # text_input
    /\ Rendered(RunScript(secrets, imageBound, t, uploaded_file, "none", NoSvc),
                t, uploaded_file, "none", NoSvc)
    /\ UNCHANGED <<presses, guarded>>

\* The user uploads, replaces or removes the file.
UploadFile(f) ==
    /\ f # uploaded_file
    /\ Rendered(RunScript(secrets, imageBound, text_input, f, "none", NoSvc),
                text_input, f, "none", NoSvc)
    /\ UNCHANGED <<presses, guarded>>

\* The user presses Scan Text.
PressScanText(s) ==
    /\ scanTextOffered
    /\ presses < MaxPresses
    /\ Rendered(RunScript(secrets, imageBound, text_input, uploaded_file, "text", s),
                text_input, uploaded_file, "text", s)
    /\ presses' = presses + 1
    /\ guarded' = IF text_input # "" THEN guarded + 1 ELSE guarded

\* The user presses Scan Screenshot, which the last run must have drawn.
PressScanScreenshot(s) ==
    /\ scanScreenshotOffered
    /\ presses < MaxPresses
    /\ Rendered(RunScript(secrets, imageBound, text_input, uploaded_file, "image", s),
                text_input, uploaded_file, "image", s)
    /\ presses' = presses + 1
    /\ guarded' = guarded + 1

Next ==
    \/ \E t \in Texts : EnterText(t)
    \/ \E f \in Files \cup {NoFile} : UploadFile(f)
    \/ \E s \in Svc : PressScanText(s)

NextImageBound ==
    \/ \E t \in Texts : EnterText(t)
    \/ \E f \in Files \cup {NoFile} : UploadFile(f)
    \/ \E s \in Svc : PressScanText(s)
    \/ \E s \in Svc : PressScanScreenshot(s)

Spec == Init /\ [][Next]_vars

SpecImageBound == InitImageBound /\ [][NextImageBound]_vars

(***************************************************************************)
(* Vocabulary of the properties.                                           *)
(***************************************************************************)

\* The tab whose button started the last run.
ScanTab == IF button = "image" THEN tab2 ELSE tab1

\* The last run called the service and the service answered with text.
Replied == requests # <<>> /\ svc.kind = "text"

\* The last run called the service and the call failed or gave no text.
Failed == requests # <<>> /\ svc.kind \in {"raise", "notext"}

\* The text of the error of a failed call.
ErrorText == IF svc.kind = "raise" THEN svc.val ELSE NoTextError

\* The non-blank lines of the reply, in order.
ReplyLines == NonBlank(Split(svc.val, "\n"))

\* s begins with p.
StartsWith(s, p) == Len(s) >= Len(p) /\ SubSeq(s, 1, Len(p)) = p

\* A line without surrounding whitespace and without a leading label.
Unprefixed(line, label) ==
    IF StartsWith(Strip(line), label)
    THEN Strip(SubSeq(Strip(line), Len(label) + 1, Len(Strip(line))))
    ELSE Strip(line)

BannerKinds == {"error", "warning", "success"}
Icons == {"[siren] ", "[warn] ", "[ok] "}

\* The positions of the verdict banners among the elements of a tab.
Banners(tab) ==
    {i \in DOMAIN tab : tab[i].w \in BannerKinds
                        /\ \E icon \in Icons : StartsWith(tab[i].body, icon)}

\* The verdict panel: a banner, the hook or a flag.
PanelShown(tab) ==
    \E i \in DOMAIN tab : \/ i \in Banners(tab)
                          \/ tab[i].w \in {"divider", "info", "subheader", "markdown", "metric"}

\* The inline message of a failed call.
ServiceErrorShown(tab) ==
    \E i \in DOMAIN tab : /\ tab[i].w = "error"
                          /\ \/ StartsWith(tab[i].body, "Connection Error: ")
                             \/ StartsWith(tab[i].body, "Error: ")

\* The generic message of a reply that could not be parsed.
MalformedShown(tab) ==
    \E i \in DOMAIN tab : /\ tab[i].w = "error"
                          /\ StartsWith(tab[i].body, "Could not analyze")

\* A tab shows nothing a scan produces.
NoScanOutput(tab) == ~PanelShown(tab) /\ ~ServiceErrorShown(tab) /\ ~MalformedShown(tab)

\* The flags a tab displays, in order, without the "- " of the list.
ShownFlags(tab) ==
    LET at == {i \in DOMAIN tab : tab[i].w = "markdown"}
        nth(k) == CHOOSE i \in at : Cardinality({j \in at : j < i}) = k - 1
    IN  [k \in 1..Cardinality(at) |-> SubSeq(tab[nth(k)].body, 3, Len(tab[nth(k)].body))]

\* The severity the rule of the specification gives a risk string.
SeverityOf(risk) ==
    IF Contains(risk, "High") THEN "error"
    ELSE IF Contains(risk, "Medium") THEN "warning"
    ELSE "success"

(***************************************************************************)
(* Properties.                                                             *)
(***************************************************************************)

\* C1: for every reply with at least four non-blank lines, risk, verdict and
\* hook are the 1st, 2nd and 3rd non-blank lines with only a leading
\* "Line N:" label and surrounding whitespace removed; the rest of the line
\* is unchanged.  Violated: replace removes the label anywhere in the line.
C1_FieldsKeepLineContent ==
    (Replied /\ Len(ReplyLines) >= 4) =>
        /\ parsed.ok
        /\ parsed.risk = Unprefixed(ReplyLines[1], "Line 1:")
        /\ parsed.verdict = Unprefixed(ReplyLines[2], "Line 2:")
        /\ parsed.hook = Unprefixed(ReplyLines[3], "Line 3:")

C3_SeverityFromRisk ==
    parsed.ok =>
        /\ Cardinality(Banners(ScanTab)) = 1
        /\ \A i \in Banners(ScanTab) : ScanTab[i].w = SeverityOf(parsed.risk)
        /\ Banners(tab1) \cup Banners(tab2) = Banners(ScanTab)

C3_Witness ==
    /\ button = "text"
    /\ parsed.ok
    /\ Contains(parsed.risk, "High") /\ Contains(parsed.risk, "Medium")
    /\ Contains(parsed.verdict, "Scam")
    /\ \E i \in Banners(tab1) : tab1[i].w = "error"

C5_OneCallPerPress ==
    /\ totalCalls = guarded
    /\ Len(requests) = IF \/ button = "text" /\ text_input # ""
                          \/ button = "image"
                       THEN 1 ELSE 0

C5_Witness ==
    /\ guarded = MaxPresses
    /\ totalCalls = MaxPresses
    /\ button = "text"
    /\ svc.kind = "raise"

\* C6: for every reply with at least four non-blank lines the displayed flags
\* are the fourth non-blank line, without its leading "Line 4:" label and
\* surrounding whitespace, split at every comma, in order, each trimmed.
\* Violated: replace removes the label anywhere in the line (C1).
C6_FlagsAreTheFourthLine ==
    (Replied /\ Len(ReplyLines) >= 4) =>
        LET pieces == Split(Unprefixed(ReplyLines[4], "Line 4:"), ",")
        IN  ShownFlags(ScanTab) = [k \in 1..Len(pieces) |-> Strip(pieces[k])]

\* C7: when the credential is absent from the secret store the client is not
\* configured with a substitute key, no scan form is usable and no call of
\* the service is made.  Violated: line 15 assigns a substitute and the
\* script goes on.
C7_MissingCredentialStops ==
    SecretName \notin DOMAIN secrets =>
        /\ api_key # FallbackKey
        /\ ~scanTextOffered
        /\ ~scanScreenshotOffered
        /\ totalCalls = 0

\* C8: no sequence of user actions ends a run with an uncaught error, and an
\* uploaded image always reaches the Scan Screenshot button.  Violated:
\* line 126 raises outside every try.
C8_NoUncaughtError ==
    /\ uncaught = NoError
    /\ uploaded_file # NoFile => scanScreenshotOffered

\* C9: pressing Scan Text while the text area is empty makes no call and
\* renders no verdict panel and no error message; Scan Screenshot is pressed
\* only with a file uploaded; no request carries an empty content.
C9_EmptyInputNotSent ==
    /\ (button = "text" /\ text_input = "") =>
           /\ requests = <<>>
           /\ tab1 = <<>>
           /\ NoScanOutput(tab2)
    /\ button = "image" => uploaded_file # NoFile
    /\ \A i \in DOMAIN requests : requests[i].content \notin {"", NoFile}

C9_Witness ==
    /\ button = "text"
    /\ text_input = ""
    /\ presses = MaxPresses
    /\ totalCalls = MaxPresses - 1
    /\ requests = <<>>

\* C10: the outcomes of a scan exclude each other and follow the call: the
\* verdict panel only after a reply of at least four non-blank lines, the
\* service error message only after a failed call, the "could not analyze"
\* message only after a reply of fewer than four non-blank lines; the tab
\* that was not scanned, and a run that made no call, show none of them.
C10_OutcomesExclusive ==
    /\ PanelShown(ScanTab) \/ ServiceErrorShown(ScanTab) \/ MalformedShown(ScanTab)
           => requests # <<>>
    /\ PanelShown(ScanTab) =>
           /\ Replied /\ Len(ReplyLines) >= 4
           /\ ~ServiceErrorShown(ScanTab) /\ ~MalformedShown(ScanTab)
    /\ ServiceErrorShown(ScanTab) =>
           /\ Failed
           /\ ~MalformedShown(ScanTab)
    /\ MalformedShown(ScanTab) => Replied /\ Len(ReplyLines) < 4
    /\ button # "text" => NoScanOutput(tab1)
    /\ button # "image" => \A i \in DOMAIN tab2 : tab2[i].w = "image"

C10_Witness ==
    /\ presses = MaxPresses
    /\ button = "text"
    /\ PanelShown(tab1)
    /\ Len(ReplyLines) > 4

=============================================================================
